---- MODULE Spec2Model ----
(***************************************************************************)
(* Multi-dataset batch samplers of sentence_transformers/sampler.py:       *)
(* RoundRobinBatchSampler and ProportionalBatchSampler.                    *)
(*                                                                         *)
(* A scheduler object is a record of its fields.  A pass is the generator  *)
(* object returned by __iter__: its body runs only when the consumer pulls *)
(* (next()), from the point where it was suspended up to the next yield,   *)
(* return or raise.  Dataset indices are 0-based as in the source;         *)
(* sequences are 1-based, so dataset d is element d + 1.                   *)
(***************************************************************************)
EXTENDS Integers, Sequences, FiniteSets, TLC

-----------------------------------------------------------------------------
(* Bounds of the model *)

MaxDatasets == 2
MaxLength == 3
MaxBatchSize == 2
MaxSeed == 1
MaxEpoch == 1

Schedulers == {1, 2}
Passes == {1, 2}

-----------------------------------------------------------------------------
(* Python helpers *)

\* a // b of Python (floor division), b # 0
PyFloorDiv(a, b) == IF b > 0 THEN a \div b ELSE (0 - a) \div (0 - b)

\* list(range(start, end)): empty when end <= start
PyRange(start, end) == [i \in 1..(IF end > start THEN end - start ELSE 0) |-> start + i - 1]

RECURSIVE SumSeq(_)
SumSeq(s) == IF s = <<>> THEN 0 ELSE s[1] + SumSeq(Tail(s))

\* (variant: no running total is kept)
AccumulateNone(lengths) == lengths

\* list(accumulate(lengths)): each element added to the running total
RECURSIVE AccumulateFrom(_, _)
AccumulateFrom(lengths, total) ==
    IF lengths = <<>> THEN <<>>
    ELSE <<total + lengths[1]>> \o AccumulateFrom(Tail(lengths), total + lengths[1])

Accumulate(lengths) == AccumulateFrom(lengths, 0)

\* [(start, end) for start, end in zip([0] + accumulated, accumulated)]
Ranges(lengths) ==
    LET accumulated == Accumulate(lengths)
        starts == <<0>> \o accumulated
    IN [i \in 1..Len(accumulated) |-> <<starts[i], accumulated[i]>>]

SeqMin(s) == CHOOSE m \in {s[i] : i \in 1..Len(s)} : \A i \in 1..Len(s) : m <= s[i]

-----------------------------------------------------------------------------
(* torch.Generator: a seeded source; every raw draw advances pos.  The raw *)
(* value is a fixed function of the seed and of the number of draws made   *)
(* before it.                                                              *)

ManualSeed(seedval) == [seed |-> seedval, pos |-> 0]

Raw(g) == (g.seed * 5 + g.pos * 3 + g.seed * g.pos + 1) % 7

Advance(g) == [g EXCEPT !.pos = @ + 1]

Swap(r, i, j) == [r EXCEPT ![i] = r[j], ![j] = r[i]]

\* torch.randperm(n, generator=g): Fisher-Yates over 0..n-1, one raw draw
\* per position but the last.  Result: the permutation and the generator.
RECURSIVE RandPermFrom(_, _, _)
RandPermFrom(r, i, g) ==
    IF i >= Len(r) THEN [perm |-> r, g |-> g]
    ELSE RandPermFrom(Swap(r, i, i + (Raw(g) % (Len(r) - i + 1))), i + 1, Advance(g))

RandPerm(n, g) == RandPermFrom([i \in 1..n |-> i - 1], 1, g)

-----------------------------------------------------------------------------
(* torch BatchSampler over SubsetRandomSampler(range) or range *)

\* (variant: the range stops one index early)
BatchSamplerShortRange(start, end, shuffle, batch_size, drop_last) ==
    [indices |-> PyRange(start, end - 1), shuffle |-> shuffle,
     batch_size |-> batch_size, drop_last |-> drop_last,
     started |-> FALSE, rest |-> <<>>]

\* (variant: the range runs one index too far)
BatchSamplerLongRange(start, end, shuffle, batch_size, drop_last) ==
    [indices |-> PyRange(start, end + 1), shuffle |-> shuffle,
     batch_size |-> batch_size, drop_last |-> drop_last,
     started |-> FALSE, rest |-> <<>>]

\* BatchSampler(sampler, batch_size, drop_last) before iteration
BatchSampler(start, end, shuffle, batch_size, drop_last) ==
    [indices |-> PyRange(start, end), shuffle |-> shuffle,
     batch_size |-> batch_size, drop_last |-> drop_last,
     started |-> FALSE, rest |-> <<>>]

\* len(BatchSampler)
BatchSamplerLen(b) ==
    IF b.drop_last THEN PyFloorDiv(Len(b.indices), b.batch_size)
    ELSE PyFloorDiv(Len(b.indices) + b.batch_size - 1, b.batch_size)

\* (variant: the indices are permuted whatever shuffle says)
SamplerOrderAlwaysShuffled(b, g) ==
    LET rp == RandPerm(Len(b.indices), g)
    IN [items |-> [i \in 1..Len(b.indices) |-> b.indices[rp.perm[i] + 1]], g |-> rp.g]

\* the order in which the underlying sampler hands out its indices; a
\* SubsetRandomSampler draws its permutation when its iteration starts
SamplerOrder(b, g) ==
    IF b.shuffle
    THEN LET rp == RandPerm(Len(b.indices), g)
         IN [items |-> [i \in 1..Len(b.indices) |-> b.indices[rp.perm[i] + 1]], g |-> rp.g]
    ELSE [items |-> b.indices, g |-> g]

\* (variant: a short rest is handed out whatever drop_last says)
TakeCountKeepShort(left, batch_size, drop_last) ==
    IF left >= batch_size THEN batch_size ELSE left

\* (variant: a short rest is dropped whatever drop_last says)
TakeCountDropShort(left, batch_size, drop_last) ==
    IF left >= batch_size THEN batch_size ELSE 0

\* how many indices the next batch takes from what is left; 0: StopIteration
TakeCount(left, batch_size, drop_last) ==
    IF left >= batch_size THEN batch_size
    ELSE IF drop_last THEN 0 ELSE left

\* next(batch_sampler_iterator): [ok, batch, b, g]; ok = FALSE is StopIteration
NextBatch(b, g) ==
    LET so == IF b.started THEN [items |-> b.rest, g |-> g] ELSE SamplerOrder(b, g)
        k == TakeCount(Len(so.items), b.batch_size, b.drop_last)
    IN [ok |-> k > 0,
        batch |-> SubSeq(so.items, 1, k),
        b |-> [b EXCEPT !.started = TRUE, !.rest = SubSeq(so.items, k + 1, Len(so.items))],
        g |-> so.g]

-----------------------------------------------------------------------------
(* State *)

VARIABLES
    sched,      \* scheduler objects: their fields, or NoSched before __init__
    trainer,    \* the trainer objects the schedulers refer to, or NoTrainer
    gen         \* generator objects (passes) and what their consumers received

vars == <<sched, trainer, gen>>

NoSched == [kind |-> "none"]
NoTrainer == [present |-> FALSE]
NoName == 0 - 1

\* display name of dataset d in a trainer's dataset_names
DisplayName(d) == 100 + d

DatasetNames(k) == [i \in 1..k |-> DisplayName(i - 1)]

NoGen ==
    [pc |-> "none", owner |-> 0, g |-> ManualSeed(0), seeded |-> <<>>,
     batch_samplers |-> <<>>, order |-> <<>>, at |-> 0, dataset_idx |-> 0,
     out |-> <<>>, exc |-> "none"]

LengthSeqs == UNION {[1..n -> (0 - 1)..MaxLength] : n \in 0..MaxDatasets}

TrainerChoices(n) ==
    {NoTrainer}
    \cup {[present |-> TRUE, training_with_dataset_dict |-> FALSE,
           dataset_names |-> DatasetNames(n), dataset_name |-> NoName]}
    \cup {[present |-> TRUE, training_with_dataset_dict |-> TRUE,
           dataset_names |-> DatasetNames(k), dataset_name |-> NoName]
          : k \in {j \in {n - 1, n, n + 1} : j >= 0}}

Config(kind, lengths, batch_size, drop_last, seed, shuffle) ==
    [kind |-> kind, lengths |-> lengths, batch_size |-> batch_size,
     drop_last |-> drop_last, seed |-> seed, shuffle |-> shuffle]

AllTrainers == UNION {TrainerChoices(n) : n \in 0..MaxDatasets}

Configs ==
    {Config(kind, lengths, batch_size, drop_last, seed, shuffle) :
        kind \in {"RoundRobin", "Proportional"}, lengths \in LengthSeqs,
        batch_size \in 0..MaxBatchSize, drop_last \in BOOLEAN,
        seed \in 0..MaxSeed, shuffle \in BOOLEAN}

Init ==
    /\ sched = [s \in Schedulers |-> NoSched]
    /\ trainer = [s \in Schedulers |-> NoTrainer]
    /\ gen = [p \in Passes |-> NoGen]

-----------------------------------------------------------------------------
(* Operations *)

\* __init__ of either class: stores its arguments, computes ranges, epoch 0.
\* Nothing is validated.
Constructed(c) ==
    [kind |-> c.kind, lengths |-> c.lengths, ranges |-> Ranges(c.lengths),
     seed |-> c.seed, shuffle |-> c.shuffle, drop_last |-> c.drop_last,
     batch_size |-> c.batch_size, epoch |-> 0]

Construct(s, configs, trainers) ==
    /\ sched[s] = NoSched
    /\ \E c \in configs : \E t \in TrainerChoices(Len(c.lengths)) \cap trainers :
          /\ sched' = [sched EXCEPT ![s] = Constructed(c)]
          /\ trainer' = [trainer EXCEPT ![s] = t]
    /\ UNCHANGED gen

\* (variant: the epoch is written over the seed as well)
SetEpochAndSeed(o, epoch) == [o EXCEPT !.epoch = epoch, !.seed = epoch]

\* set_epoch(epoch)
SetEpochFields(o, epoch) == [o EXCEPT !.epoch = epoch]

SetEpoch(s, epoch) ==
    /\ sched[s] # NoSched
    /\ sched' = [sched EXCEPT ![s] = SetEpochFields(sched[s], epoch)]
    /\ UNCHANGED <<trainer, gen>>

\* iter(scheduler): calling the generator function only creates the
\* generator object; none of its body runs
Iter(p, s) ==
    /\ sched[s] # NoSched
    /\ gen' = [gen EXCEPT ![p] = [NoGen EXCEPT !.pc = "created", !.owner = s]]
    /\ UNCHANGED <<sched, trainer>>

-----------------------------------------------------------------------------
(* The generator bodies *)

\* (variant: the epoch is left out of the seed)
SeedValueNoEpoch(o) == o.seed

\* g.manual_seed(self.seed + self.epoch)
SeedValue(o) == o.seed + o.epoch

\* the list of BatchSampler objects, one per range, in dataset order
BatchSamplers(o) ==
    [i \in 1..Len(o.ranges) |->
        BatchSampler(o.ranges[i][1], o.ranges[i][2], o.shuffle, o.batch_size, o.drop_last)]

\* BatchSampler.__init__ rejects batch_size <= 0 with a ValueError; with
\* no range no BatchSampler is constructed
BatchSamplersRaise(o) == Len(o.ranges) >= 1 /\ o.batch_size <= 0

\* self.trainer.dataset_name = self.trainer.dataset_names[dataset_idx], when
\* a trainer is attached and training_with_dataset_dict is set
NotifyActive(t) == t.present /\ t.training_with_dataset_dict

NotifyRaises(t, dataset_idx) == NotifyActive(t) /\ dataset_idx >= Len(t.dataset_names)

\* (variant: the first name is written whatever the dataset)
NotifyFirstName(t, dataset_idx) ==
    IF NotifyActive(t)
    THEN [t EXCEPT !.dataset_name = t.dataset_names[1]]
    ELSE t

Notify(t, dataset_idx) ==
    IF NotifyActive(t)
    THEN [t EXCEPT !.dataset_name = t.dataset_names[dataset_idx + 1]]
    ELSE t

Raise(pass, exc) == [pass EXCEPT !.pc = "raised", !.exc = exc]

\* (variant: the loop is not left, the generator does not return)
ReturnNever(pass) == pass

\* the generator function returns: the pass is over
Return(pass) == [pass EXCEPT !.pc = "done"]

\* lines before the loop: the generator is seeded from the fields as they
\* are when the body starts to run
Seeded(pass, o) ==
    [pass EXCEPT !.g = ManualSeed(SeedValue(o)), !.seeded = <<o.seed, o.epoch>>,
                 !.batch_samplers = BatchSamplers(o)]

\* (variant: the pointer advances by two)
CycleNextSkip(dataset_idx, n) == (dataset_idx + 2) % n

\* cycle(range(n)): the index after dataset_idx
CycleNext(dataset_idx, n) == (dataset_idx + 1) % n

\* (variant: an exhausted batch sampler is passed over once and the next
\* dataset is tried)
RoundRobinTurnSkipEmpty(pass, dataset_idx) ==
    LET r == NextBatch(pass.batch_samplers[dataset_idx + 1], pass.g)
        pulled == [pass EXCEPT !.g = r.g, !.batch_samplers[dataset_idx + 1] = r.b]
        after == CycleNext(dataset_idx, Len(pass.batch_samplers))
        r2 == NextBatch(pulled.batch_samplers[after + 1], pulled.g)
        pulled2 == [pulled EXCEPT !.g = r2.g, !.batch_samplers[after + 1] = r2.b]
    IN IF r.ok
       THEN [pulled EXCEPT !.pc = "yielded", !.dataset_idx = dataset_idx,
                           !.out = Append(@, [batch |-> r.batch, dataset_idx |-> dataset_idx])]
       ELSE IF r2.ok
       THEN [pulled2 EXCEPT !.pc = "yielded", !.dataset_idx = after,
                            !.out = Append(@, [batch |-> r2.batch, dataset_idx |-> after])]
       ELSE Return(pulled2)

\* yield next(batch_samplers[dataset_idx]) of the round-robin loop; an
\* exhausted batch sampler breaks the loop and the generator returns
RoundRobinTurn(pass, dataset_idx) ==
    LET r == NextBatch(pass.batch_samplers[dataset_idx + 1], pass.g)
        pulled == [pass EXCEPT !.g = r.g, !.batch_samplers[dataset_idx + 1] = r.b]
    IN IF r.ok
       THEN [pulled EXCEPT !.pc = "yielded", !.dataset_idx = dataset_idx,
                           !.out = Append(@, [batch |-> r.batch, dataset_idx |-> dataset_idx])]
       ELSE Return(pulled)

\* the body of the round-robin generator from where it stands to its next
\* yield, return or raise: the generator and the trainer afterwards
RoundRobinStep(pass, o, t) ==
    IF pass.pc = "created"
    THEN [pass |-> IF BatchSamplersRaise(o) THEN Raise(pass, "ValueError")
                   ELSE IF Len(o.ranges) = 0 THEN Return(Seeded(pass, o))
                   ELSE RoundRobinTurn(Seeded(pass, o), 0),
          t |-> t]
    ELSE IF NotifyRaises(t, pass.dataset_idx)
    THEN [pass |-> Raise(pass, "IndexError"), t |-> t]
    ELSE [pass |-> RoundRobinTurn(pass, CycleNext(pass.dataset_idx, Len(pass.batch_samplers))),
          t |-> Notify(t, pass.dataset_idx)]

\* one next() on a RoundRobinBatchSampler generator
RoundRobinNext(p) ==
    LET pass == gen[p]
        step == RoundRobinStep(pass, sched[pass.owner], trainer[pass.owner])
    IN /\ pass.pc \in {"created", "yielded"}
       /\ sched[pass.owner].kind = "RoundRobin"
       /\ gen' = [gen EXCEPT ![p] = step.pass]
       /\ trainer' = [trainer EXCEPT ![pass.owner] = step.t]
       /\ UNCHANGED sched

\* [idx for idx, length in enumerate(lengths) for _ in range(length)]
RECURSIVE DrawListFrom(_, _)
DrawListFrom(lengths, idx) ==
    IF idx >= Len(lengths) THEN <<>>
    ELSE [i \in 1..(IF lengths[idx + 1] > 0 THEN lengths[idx + 1] ELSE 0) |-> idx]
         \o DrawListFrom(lengths, idx + 1)

DrawList(lengths) == DrawListFrom(lengths, 0)

\* iteration order of SubsetRandomSampler(indices, generator=g)
SubsetOrder(indices, g) ==
    LET rp == RandPerm(Len(indices), g)
    IN [items |-> [i \in 1..Len(indices) |-> indices[rp.perm[i] + 1]], g |-> rp.g]

\* the proportional generator up to its loop: batch samplers, their
\* lengths, the draw list and its permutation
ProportionalSeeded(pass, o) ==
    LET s0 == Seeded(pass, o)
        lengths == [i \in 1..Len(s0.batch_samplers) |-> BatchSamplerLen(s0.batch_samplers[i])]
        so == SubsetOrder(DrawList(lengths), s0.g)
    IN [s0 EXCEPT !.order = so.items, !.g = so.g]

\* yield next(batch_samplers[dataset_idx]) for entry k of the draw order;
\* a StopIteration escaping a generator body surfaces as RuntimeError
ProportionalTurn(pass, k) ==
    IF k > Len(pass.order) THEN Return(pass)
    ELSE LET dataset_idx == pass.order[k]
             r == NextBatch(pass.batch_samplers[dataset_idx + 1], pass.g)
             pulled == [pass EXCEPT !.g = r.g, !.batch_samplers[dataset_idx + 1] = r.b,
                                    !.at = k]
         IN IF r.ok
            THEN [pulled EXCEPT !.pc = "yielded", !.dataset_idx = dataset_idx,
                                !.out = Append(@, [batch |-> r.batch, dataset_idx |-> dataset_idx])]
            ELSE Raise(pulled, "RuntimeError")

\* the body of the proportional generator from where it stands to its next
\* yield, return or raise: the generator and the trainer afterwards
ProportionalStep(pass, o, t) ==
    IF pass.pc = "created"
    THEN [pass |-> IF BatchSamplersRaise(o) THEN Raise(pass, "ValueError")
                   ELSE ProportionalTurn(ProportionalSeeded(pass, o), 1),
          t |-> t]
    ELSE IF NotifyRaises(t, pass.dataset_idx)
    THEN [pass |-> Raise(pass, "IndexError"), t |-> t]
    ELSE [pass |-> ProportionalTurn(pass, pass.at + 1), t |-> Notify(t, pass.dataset_idx)]

\* one next() on a ProportionalBatchSampler generator
ProportionalNext(p) ==
    LET pass == gen[p]
        step == ProportionalStep(pass, sched[pass.owner], trainer[pass.owner])
    IN /\ pass.pc \in {"created", "yielded"}
       /\ sched[pass.owner].kind = "Proportional"
       /\ gen' = [gen EXCEPT ![p] = step.pass]
       /\ trainer' = [trainer EXCEPT ![pass.owner] = step.t]
       /\ UNCHANGED sched

-----------------------------------------------------------------------------
(* __len__ *)

\* the per-dataset batch counts __len__ computes from lengths
LenCounts(o) ==
    [i \in 1..Len(o.lengths) |->
        IF o.drop_last THEN PyFloorDiv(o.lengths[i], o.batch_size)
        ELSE PyFloorDiv(o.lengths[i] + o.batch_size - 1, o.batch_size)]

\* (variant: the smallest batch count is not multiplied by the number of
\* datasets)
RoundRobinLenMinOnly(o) == SeqMin(LenCounts(o))

\* RoundRobinBatchSampler.__len__ (min of an empty list and division by
\* zero raise: defined for at least one dataset and batch_size # 0)
RoundRobinLen(o) == SeqMin(LenCounts(o)) * Len(o.lengths)

\* (variant: drop_last ignored, always the floor)
ProportionalLenFloor(o) ==
    SumSeq([i \in 1..Len(o.lengths) |-> PyFloorDiv(o.lengths[i], o.batch_size)])

\* ProportionalBatchSampler.__len__ (batch_size # 0)
ProportionalLen(o) == SumSeq(LenCounts(o))

-----------------------------------------------------------------------------
(* One scheduler, one consumer *)

Next ==
    \/ Construct(1, Configs, AllTrainers)
    \/ \E epoch \in 0..MaxEpoch : SetEpoch(1, epoch)
    \/ Iter(1, 1)
    \/ RoundRobinNext(1)
    \/ ProportionalNext(1)

Spec == Init /\ [][Next]_vars

-----------------------------------------------------------------------------
(* Two schedulers of the same shape, one pass on each, pulls interleaved *)

ValidLengths(lengths) == \A i \in 1..Len(lengths) : lengths[i] >= 0

PairConfigs == {c \in Configs : Len(c.lengths) >= 1 /\ ValidLengths(c.lengths) /\ c.batch_size > 0}

\* the configurations that differ from scheduler s at most in the seed
TwinConfigs(s) ==
    IF sched[s] = NoSched THEN {}
    ELSE {Config(sched[s].kind, sched[s].lengths, sched[s].batch_size,
                 sched[s].drop_last, seed, sched[s].shuffle) : seed \in 0..MaxSeed}

\* the pass has ended, by return or by an exception
Drained(p) == gen[p].pc \in {"done", "raised"}

\* the schedulers share nothing, so the order of the two consumers' pulls
\* is immaterial: the consumer of pass 2 drains it before pass 1 is pulled
PairPull(p) ==
    /\ p = 1 => Drained(2)
    /\ (RoundRobinNext(p) \/ ProportionalNext(p))

PairIter(p) == gen[p].pc = "none" /\ Iter(p, p)

PairNext ==
    \/ Construct(1, PairConfigs, {NoTrainer})
    \/ Construct(2, TwinConfigs(1), {NoTrainer})
    \/ \E s \in Schedulers : \E epoch \in 0..MaxEpoch : SetEpoch(s, epoch)
    \/ \E p \in Passes : PairIter(p)
    \/ \E p \in Passes : PairPull(p)

PairSpec == Init /\ [][PairNext]_vars

-----------------------------------------------------------------------------
(* What the consumer of a pass has seen, and reference arithmetic *)

Owner(p) == sched[gen[p].owner]

OwnerTrainer(p) == trainer[gen[p].owner]

\* the pass has run its body at least once
Running(p) == gen[p].pc \in {"yielded", "done", "raised"}

\* the pass was pulled to exhaustion
Exhausted(p) == gen[p].pc = "done"

IsRoundRobin(p) == Running(p) /\ Owner(p).kind = "RoundRobin"

IsProportional(p) == Running(p) /\ Owner(p).kind = "Proportional"

\* lengths and batch_size as the data model admits them
ValidShape(o) == ValidLengths(o.lengths) /\ o.batch_size > 0

\* floor(a / b) and ceil(a / b) for a >= 0, b > 0, by their defining
\* inequalities
Floor(a, b) == CHOOSE q \in 0..a : q * b <= a /\ (q + 1) * b > a

Ceil(a, b) == CHOOSE q \in 0..a : q * b >= a /\ (q - 1) * b < a

\* c_i: the batch count of a dataset of size L
BatchCount(L, batch_size, drop_last) ==
    IF drop_last THEN Floor(L, batch_size) ELSE Ceil(L, batch_size)

Counts(o) == [i \in 1..Len(o.lengths) |-> BatchCount(o.lengths[i], o.batch_size, o.drop_last)]

\* all indices the consumer received, in order
RECURSIVE Flatten(_)
Flatten(out) == IF out = <<>> THEN <<>> ELSE out[1].batch \o Flatten(Tail(out))

\* how many of the received batches came from dataset d
YieldedFrom(out, d) == Cardinality({k \in 1..Len(out) : out[k].dataset_idx = d})

-----------------------------------------------------------------------------
(* C1  Round-robin length agreement *)

\* C1: a round-robin pass over at least one dataset, pulled to exhaustion,
\* has yielded exactly __len__ = min(c_i) * n batches.
C1_RoundRobinLengthAgreement ==
    \A p \in Passes :
        (IsRoundRobin(p) /\ Exhausted(p) /\ ValidShape(Owner(p)) /\ Len(Owner(p).lengths) >= 1)
            => Len(gen[p].out) = RoundRobinLen(Owner(p))

-----------------------------------------------------------------------------
(* C2  Notification before hand-over *)

\* C2: whenever the consumer holds a batch it has just received and the
\* notifier is active, the name slot holds the display name of that batch's
\* dataset.
C2_NotifiedBeforeHandOver ==
    \A p \in Passes :
        (gen[p].pc = "yielded" /\ NotifyActive(OwnerTrainer(p))
         /\ gen[p].dataset_idx < Len(OwnerTrainer(p).dataset_names))
            => OwnerTrainer(p).dataset_name
                 = OwnerTrainer(p).dataset_names[gen[p].dataset_idx + 1]

-----------------------------------------------------------------------------
(* C3  Proportional length agreement *)

\* C3: a proportional pass pulled to exhaustion has yielded exactly __len__
\* batches, and __len__ is the sum over the datasets of floor(L / batch_size)
\* with drop_last, of ceil(L / batch_size) without.
C3_ProportionalLengthAgreement ==
    \A p \in Passes :
        (IsProportional(p) /\ Exhausted(p) /\ ValidShape(Owner(p)))
            => /\ Len(gen[p].out) = ProportionalLen(Owner(p))
               /\ ProportionalLen(Owner(p)) = SumSeq(Counts(Owner(p)))

\* an exhausted proportional pass over datasets of different batch counts,
\* one of them with a short last batch
C3_Witness ==
    \E p \in Passes :
        /\ IsProportional(p) /\ Exhausted(p) /\ ValidShape(Owner(p))
        /\ Len(gen[p].out) >= 3
        /\ \E i, j \in 1..Len(Owner(p).lengths) : Counts(Owner(p))[i] # Counts(Owner(p))[j]
        /\ \E k \in 1..Len(gen[p].out) : Len(gen[p].out[k].batch) < Owner(p).batch_size

-----------------------------------------------------------------------------
(* C4  Round-robin fairness-then-stop *)

\* the number of turns a round-robin pass can serve: the first k such that
\* dataset k mod n has already given all its c batches in the turns before
FirstExhaustedTurn(o) ==
    LET n == Len(o.lengths)
        c == Counts(o)
    IN CHOOSE k \in 0..(n * (MaxLength + 1)) :
          /\ c[(k % n) + 1] <= k \div n
          /\ \A j \in 0..(k - 1) : c[(j % n) + 1] > j \div n

\* C4: the k-th batch of a round-robin pass comes from dataset k mod n; the
\* pass never serves a turn past the first one whose dataset has no batch
\* left, and it has ended exactly when that turn was reached.
C4_FairnessThenStop ==
    \A p \in Passes :
        (IsRoundRobin(p) /\ ValidShape(Owner(p)) /\ Len(Owner(p).lengths) >= 1
         /\ gen[p].pc \in {"yielded", "done"})
            => LET out == gen[p].out
                   n == Len(Owner(p).lengths)
               IN /\ \A k \in 1..Len(out) : out[k].dataset_idx = (k - 1) % n
                  /\ Len(out) <= FirstExhaustedTurn(Owner(p))
                  /\ Exhausted(p) => Len(out) = FirstExhaustedTurn(Owner(p))
                  /\ Exhausted(p) => ~NextBatch(gen[p].batch_samplers[(Len(out) % n) + 1], gen[p].g).ok

\* a round-robin pass that ended while another dataset still had a batch
C4_Witness ==
    \E p \in Passes :
        /\ IsRoundRobin(p) /\ Exhausted(p) /\ ValidShape(Owner(p))
        /\ Len(gen[p].out) >= 3
        /\ \E d \in 1..Len(gen[p].batch_samplers) :
              NextBatch(gen[p].batch_samplers[d], gen[p].g).ok

-----------------------------------------------------------------------------
(* C5  Proportional coverage *)

\* C5: with drop_last false, the indices of an exhausted proportional pass
\* are every global index of [0, sum(lengths)) exactly once, nothing else.
C5_ProportionalCoverage ==
    \A p \in Passes :
        (IsProportional(p) /\ Exhausted(p) /\ ValidShape(Owner(p)) /\ ~Owner(p).drop_last)
            => LET flat == Flatten(gen[p].out)
                   total == SumSeq(Owner(p).lengths)
               IN /\ Len(flat) = total
                  /\ {flat[i] : i \in 1..Len(flat)} = 0..(total - 1)

\* an exhausted shuffled proportional pass over two non-empty datasets whose
\* order of indices is not the ascending one
C5_Witness ==
    \E p \in Passes :
        /\ IsProportional(p) /\ Exhausted(p) /\ ValidShape(Owner(p))
        /\ ~Owner(p).drop_last /\ Owner(p).shuffle
        /\ SumSeq(Owner(p).lengths) >= 4
        /\ \E i \in 1..(Len(Flatten(gen[p].out)) - 1) :
              Flatten(gen[p].out)[i] > Flatten(gen[p].out)[i + 1]
        /\ \E k \in 1..Len(gen[p].out) : Len(gen[p].out[k].batch) < Owner(p).batch_size

-----------------------------------------------------------------------------
(* C6  Determinism *)

SameShape(o1, o2) ==
    /\ o1.kind = o2.kind /\ o1.lengths = o2.lengths /\ o1.batch_size = o2.batch_size
    /\ o1.drop_last = o2.drop_last /\ o1.shuffle = o2.shuffle

\* seed + epoch as the fields were when the pass seeded its generator
SeedSum(p) == gen[p].seeded[1] + gen[p].seeded[2]

\* both passes run on schedulers of the same shape, seeded with equal sums
Comparable(p, q) ==
    /\ Running(p) /\ Running(q)
    /\ gen[p].seeded # <<>> /\ gen[q].seeded # <<>>
    /\ SameShape(Owner(p), Owner(q))
    /\ SeedSum(p) = SeedSum(q)

\* what the two consumers received so far is the same, batch for batch, and
\* a pass that has ended is not shorter than the other
Agree(p, q) ==
    /\ \A k \in 1..Len(gen[p].out) : k <= Len(gen[q].out) => gen[p].out[k] = gen[q].out[k]
    /\ Exhausted(p) => Len(gen[q].out) <= Len(gen[p].out)

\* C6: two passes over schedulers with the same lengths, batch_size,
\* drop_last and shuffle whose seed + epoch agree yield the same batches,
\* same contents, same order, under either policy.
C6_Determinism ==
    \A p, q \in Passes : Comparable(p, q) => Agree(p, q)

\* two exhausted shuffled passes seeded from different (seed, epoch) pairs
\* of equal sum, whose indices do not come out in ascending order
C6_Witness ==
    \E p, q \in Passes :
        /\ p # q /\ Comparable(p, q) /\ Exhausted(p) /\ Exhausted(q)
        /\ gen[p].seeded # gen[q].seeded
        /\ Owner(p).shuffle /\ Len(gen[p].out) >= 3
        /\ \E i \in 1..(Len(Flatten(gen[p].out)) - 1) :
              Flatten(gen[p].out)[i] > Flatten(gen[p].out)[i + 1]

-----------------------------------------------------------------------------
(* C7  Partition invariant *)

RangeSet(r) == {x \in r[1]..(r[2] - 1) : TRUE}

\* C7: for non-negative lengths, range i runs from the sum of the lengths
\* before i to the sum up to i; consecutive ranges share their boundary, no
\* two overlap, and together they are [0, sum(lengths)).
C7_Partition ==
    \A s \in Schedulers :
        (sched[s] # NoSched /\ ValidLengths(sched[s].lengths))
            => LET lengths == sched[s].lengths
                   ranges == sched[s].ranges
                   n == Len(lengths)
               IN /\ Len(ranges) = n
                  /\ \A i \in 1..n :
                        ranges[i] = <<SumSeq(SubSeq(lengths, 1, i - 1)), SumSeq(SubSeq(lengths, 1, i))>>
                  /\ \A i \in 1..(n - 1) : ranges[i][2] = ranges[i + 1][1]
                  /\ \A i, j \in 1..n : i # j => RangeSet(ranges[i]) \cap RangeSet(ranges[j]) = {}
                  /\ UNION {RangeSet(ranges[i]) : i \in 1..n} = 0..(SumSeq(lengths) - 1)

\* a scheduler over several non-empty datasets of different sizes
C7_Witness ==
    \E s \in Schedulers :
        /\ sched[s] # NoSched /\ ValidLengths(sched[s].lengths)
        /\ Len(sched[s].lengths) >= 2
        /\ sched[s].lengths[1] >= 2 /\ sched[s].lengths[2] >= 1
        /\ sched[s].lengths[1] # sched[s].lengths[2]

-----------------------------------------------------------------------------
(* C8  Invalid configuration fails fast *)

\* C8: no scheduler object comes out of a construction with batch_size <= 0
\* or a negative length: the constructor raises instead.
C8_InvalidConfigRejected ==
    \A s \in Schedulers : sched[s] # NoSched => ValidShape(sched[s])

-----------------------------------------------------------------------------
(* C9  Notifier name mismatch *)

\* C9: with an active notifier whose name list has not one name per dataset,
\* the mismatch is reported instead of batches: no pass delivers a batch.
C9_NameMismatchRejected ==
    \A p \in Passes :
        (Running(p) /\ NotifyActive(OwnerTrainer(p))
         /\ Len(OwnerTrainer(p).dataset_names) # Len(Owner(p).lengths))
            => gen[p].out = <<>>

-----------------------------------------------------------------------------
(* C10  set_epoch is a pure state mutation *)

\* a set_epoch step writes the epoch field of its scheduler and nothing else
SetEpochFrame(s, epoch) ==
    /\ sched'[s].epoch = epoch
    /\ sched'[s].kind = sched[s].kind
    /\ sched'[s].lengths = sched[s].lengths
    /\ sched'[s].ranges = sched[s].ranges
    /\ sched'[s].batch_size = sched[s].batch_size
    /\ sched'[s].drop_last = sched[s].drop_last
    /\ sched'[s].shuffle = sched[s].shuffle
    /\ sched'[s].seed = sched[s].seed
    /\ \A s2 \in Schedulers \ {s} : sched'[s2] = sched[s2]
    /\ trainer' = trainer
    /\ gen' = gen

\* the epoch of the pass's scheduler was set to another value after the
\* pass seeded its generator
EpochMoved(p) == Running(p) /\ gen[p].seeded # <<>> /\ Owner(p).epoch # gen[p].seeded[2]

\* a pass whose scheduler's epoch moved under it yields what a pass of equal
\* seeding on an undisturbed scheduler yields
MidPassUnaffected ==
    \A p, q \in Passes :
        (Comparable(p, q) /\ EpochMoved(p) /\ ~EpochMoved(q) /\ Len(gen[p].out) >= 1)
            => Agree(p, q)

\* C10: set_epoch changes only the epoch field, and a call made while a pass
\* is in progress changes none of the batches that pass yields afterwards.
C10_SetEpochPure ==
    /\ [][\A s \in Schedulers : \A epoch \in 0..MaxEpoch :
            SetEpoch(s, epoch) => SetEpochFrame(s, epoch)]_vars
    /\ []MidPassUnaffected

\* a shuffled pass that was suspended with a batch delivered when its epoch
\* moved, and went on to its end, beside an undisturbed pass of equal seeding
C10_Witness ==
    \E p, q \in Passes :
        /\ Comparable(p, q) /\ EpochMoved(p) /\ ~EpochMoved(q)
        /\ Exhausted(p) /\ Exhausted(q)
        /\ Owner(p).shuffle /\ Len(gen[p].out) >= 3

-----------------------------------------------------------------------------
(* A pass pulled alone to its end *)

\* one next() on the generator of scheduler o, whatever its class
Step(pass, o, t) ==
    IF o.kind = "RoundRobin" THEN RoundRobinStep(pass, o, t) ELSE ProportionalStep(pass, o, t)

\* the batches a consumer has received when it pulls the generator, from
\* where it stands, until it returns or raises, no one else touching the
\* scheduler or the trainer
RECURSIVE RunOut(_, _, _)
RunOut(pass, o, t) ==
    IF pass.pc \in {"created", "yielded"}
    THEN LET step == Step(pass, o, t) IN RunOut(step.pass, o, step.t)
    ELSE pass.out

-----------------------------------------------------------------------------
(* C11  Seeding at the time the pass is requested *)

\* C11: a set_epoch call made after a pass was requested and before its
\* first batch is pulled changes none of the batches the pass yields: the
\* pass pulled after the call yields what it would have yielded before it.
C11_SeededAtRequest ==
    [][\A p \in Passes :
          (gen[p].pc = "created" /\ gen'[p] = gen[p] /\ sched'[gen[p].owner] # sched[gen[p].owner])
              => RunOut(gen[p], sched'[gen[p].owner], trainer'[gen[p].owner])
                   = RunOut(gen[p], sched[gen[p].owner], trainer[gen[p].owner])]_vars

-----------------------------------------------------------------------------
(* C12  Batch shape *)

\* the k-th received batch is the n-th one taken from its dataset
NthOfDataset(out, k) ==
    Cardinality({i \in 1..k : out[i].dataset_idx = out[k].dataset_idx})

\* C12: every yielded batch is non-empty, holds only indices of the range of
\* its one dataset and of no other range, and has batch_size indices, but
\* that without drop_last the last batch of a dataset may be shorter; with
\* drop_last no batch is shorter than batch_size.
C12_BatchShape ==
    \A p \in Passes :
        (Running(p) /\ ValidShape(Owner(p)))
            => LET out == gen[p].out
                   o == Owner(p)
               IN \A k \in 1..Len(out) :
                     LET batch == out[k].batch
                         d == out[k].dataset_idx + 1
                     IN /\ Len(batch) >= 1
                        /\ \A i \in 1..Len(batch) :
                              /\ batch[i] \in RangeSet(o.ranges[d])
                              /\ \A e \in 1..Len(o.ranges) :
                                    e # d => batch[i] \notin RangeSet(o.ranges[e])
                        /\ Len(batch) <= o.batch_size
                        /\ Len(batch) < o.batch_size
                              => /\ ~o.drop_last
                                 /\ NthOfDataset(out, k) = Counts(o)[d]
                                 /\ \A k2 \in (k + 1)..Len(out) : out[k2].dataset_idx # out[k].dataset_idx

\* a pass over two datasets, without drop_last, that yielded a short last
\* batch of one dataset and a batch of the other dataset after it
C12_Witness ==
    \E p \in Passes :
        /\ Running(p) /\ ValidShape(Owner(p)) /\ ~Owner(p).drop_last
        /\ \E k \in 1..Len(gen[p].out) :
              /\ Len(gen[p].out[k].batch) < Owner(p).batch_size
              /\ NthOfDataset(gen[p].out, k) >= 2
              /\ k < Len(gen[p].out)

-----------------------------------------------------------------------------
(* C13  A proportional pass never hits exhaustion *)

\* C13: in a proportional pass no pull from a per-dataset batcher fails; no
\* dataset has yielded more than its c_i batches, and when the draw list has
\* ended every dataset i has yielded exactly c_i batches and every batcher
\* is drained.
C13_ProportionalNeverExhausts ==
    \A p \in Passes :
        (IsProportional(p) /\ ValidShape(Owner(p)))
            => LET out == gen[p].out
                   c == Counts(Owner(p))
               IN /\ gen[p].exc # "RuntimeError"
                  /\ \A d \in 1..Len(c) : YieldedFrom(out, d - 1) <= c[d]
                  /\ Exhausted(p)
                        => /\ gen[p].at = Len(gen[p].order)
                           /\ \A d \in 1..Len(c) :
                                 /\ YieldedFrom(out, d - 1) = c[d]
                                 /\ ~NextBatch(gen[p].batch_samplers[d], gen[p].g).ok

\* an exhausted proportional pass over two datasets of different batch
\* counts, one of which gave a short last batch
C13_Witness ==
    \E p \in Passes :
        /\ IsProportional(p) /\ Exhausted(p) /\ ValidShape(Owner(p))
        /\ Len(Owner(p).lengths) = 2
        /\ Counts(Owner(p))[1] >= 1 /\ Counts(Owner(p))[2] > Counts(Owner(p))[1]
        /\ \E k \in 1..Len(gen[p].out) : Len(gen[p].out[k].batch) < Owner(p).batch_size

-----------------------------------------------------------------------------
(* C14  Silent-empty dataset under round-robin *)

\* dataset i (from 0) has no eligible batch: size 0, or size below
\* batch_size with drop_last
NoEligibleBatch(o, i) ==
    o.lengths[i + 1] = 0 \/ (o.drop_last /\ o.lengths[i + 1] < o.batch_size)

\* C14: when dataset i has no eligible batch, a round-robin pass raises no
\* error and ends at the first turn of dataset i: it yields no batch from i
\* or from a dataset of larger index, at most one batch from each dataset of
\* smaller index, and the pull that reaches the first such dataset ends it.
C14_SilentEmptyDataset ==
    \A p \in Passes :
        (IsRoundRobin(p) /\ ValidShape(Owner(p)))
            => \A i \in 0..(Len(Owner(p).lengths) - 1) :
                  NoEligibleBatch(Owner(p), i)
                     => LET out == gen[p].out
                        IN /\ gen[p].exc = "none" /\ gen[p].pc # "raised"
                           /\ \A d \in i..(Len(Owner(p).lengths) - 1) : YieldedFrom(out, d) = 0
                           /\ \A d \in 0..(i - 1) : YieldedFrom(out, d) <= 1
                           /\ Len(out) <= i
                           /\ (Len(out) = i /\ gen[p].pc = "yielded")
                                 => RoundRobinStep(gen[p], Owner(p), OwnerTrainer(p)).pass.pc = "done"

\* a round-robin pass that ended after one batch at its second dataset,
\* which has samples but fewer than batch_size with drop_last, or none
\* while the first has batches left
C14_Witness ==
    \E p \in Passes :
        /\ IsRoundRobin(p) /\ Exhausted(p) /\ ValidShape(Owner(p))
        /\ Len(Owner(p).lengths) = 2 /\ NoEligibleBatch(Owner(p), 1)
        /\ Len(gen[p].out) = 1
        /\ Owner(p).lengths[2] >= 1 \/ Counts(Owner(p))[1] >= 2

-----------------------------------------------------------------------------
(* C15  Per-dataset batcher without shuffle *)

\* chunk k (from 0) of the range start..end-1 cut into groups of batch_size
Chunk(start, end, batch_size, k) ==
    LET lo == start + k * batch_size
        hi == IF start + (k + 1) * batch_size < end THEN start + (k + 1) * batch_size ELSE end
    IN [i \in 1..(hi - lo) |-> lo + i - 1]

\* C15: without shuffle, under either policy, the k-th batch taken from a
\* dataset is the k-th consecutive ascending chunk of batch_size indices of
\* its range, and a dataset whose batcher is drained has given
\* floor(L / batch_size) batches with drop_last, ceil(L / batch_size) without.
C15_UnshuffledChunks ==
    \A p \in Passes :
        (Running(p) /\ ValidShape(Owner(p)) /\ ~Owner(p).shuffle)
            => LET out == gen[p].out
                   o == Owner(p)
               IN /\ \A k \in 1..Len(out) :
                        LET r == o.ranges[out[k].dataset_idx + 1]
                        IN out[k].batch = Chunk(r[1], r[2], o.batch_size, NthOfDataset(out, k) - 1)
                  /\ \A d \in 1..Len(gen[p].batch_samplers) :
                        ~NextBatch(gen[p].batch_samplers[d], gen[p].g).ok
                            => YieldedFrom(out, d - 1)
                                 = (IF o.drop_last THEN Floor(o.lengths[d], o.batch_size)
                                    ELSE Ceil(o.lengths[d], o.batch_size))

\* an exhausted unshuffled proportional pass that took a second, short batch
\* from one dataset and did not serve its datasets in index order
C15_Witness ==
    \E p \in Passes :
        /\ IsProportional(p) /\ Exhausted(p) /\ ValidShape(Owner(p)) /\ ~Owner(p).shuffle
        /\ Len(gen[p].out) >= 3
        /\ \E k \in 1..Len(gen[p].out) :
              NthOfDataset(gen[p].out, k) >= 2 /\ Len(gen[p].out[k].batch) < Owner(p).batch_size
        /\ \E k \in 1..(Len(gen[p].out) - 1) :
              gen[p].out[k].dataset_idx > gen[p].out[k + 1].dataset_idx

-----------------------------------------------------------------------------
(* One scheduler, one consumer that keeps pulling *)

FairConfigs == {c \in Configs : c.batch_size > 0}

\* (variant: the generator and the batch samplers are kept on the scheduler,
\* so a pull leaves them to every other suspended pass of that scheduler)
PullSharedState(p) ==
    LET pass == gen[p]
        step == Step(pass, sched[pass.owner], trainer[pass.owner])
    IN /\ pass.pc \in {"created", "yielded"}
       /\ gen' = [q \in Passes |->
                    IF q = p THEN step.pass
                    ELSE IF gen[q].owner = pass.owner /\ gen[q].pc = "yielded"
                    THEN [gen[q] EXCEPT !.g = step.pass.g,
                                        !.batch_samplers = step.pass.batch_samplers]
                    ELSE gen[q]]
       /\ trainer' = [trainer EXCEPT ![pass.owner] = step.t]
       /\ UNCHANGED sched

\* next() on the generator, whatever its class
Pull(p) == RoundRobinNext(p) \/ ProportionalNext(p)

\* the consumer requests a pass when it holds none or the last one has ended
FairIter(p) == gen[p].pc \in {"none", "done", "raised"} /\ Iter(p, 1)

FairNext ==
    \/ Construct(1, FairConfigs, AllTrainers)
    \/ \E epoch \in 0..MaxEpoch : SetEpoch(1, epoch)
    \/ FairIter(1)
    \/ Pull(1)

\* ENABLED <<Pull(p)>>_vars as a state predicate: the pass is suspended and
\* its next step changes the generator or the trainer
PullEnabled(p) ==
    /\ gen[p].pc \in {"created", "yielded"}
    /\ LET step == Step(gen[p], Owner(p), OwnerTrainer(p))
       IN step.pass # gen[p] \/ step.t # OwnerTrainer(p)

\* the consumer does not stop pulling a pass it holds: weak fairness of the
\* pull, WF_vars(Pull(1)), with its ENABLED written as PullEnabled
PullFairness(p) == []<>(~PullEnabled(p)) \/ []<><<Pull(p)>>_vars

FairSpec == Init /\ [][FairNext]_vars /\ PullFairness(1)

-----------------------------------------------------------------------------
(* C16  Every pass is finite *)

\* the pass ended with the IndexError of a name list that has no name for a
\* dataset it served
NameMissing(p) ==
    /\ gen[p].pc = "raised" /\ gen[p].exc = "IndexError"
    /\ Len(OwnerTrainer(p).dataset_names) < Len(Owner(p).lengths)

\* C16: for any lengths, the empty list of datasets and datasets of size 0
\* included, and batch_size > 0, a pass of either class whose consumer keeps
\* pulling eventually ends: the generator returns (round-robin reaches an
\* exhausted dataset, proportional the end of its draw list), unless the
\* notifier has no name for a served dataset and the pass ends by that error.
C16_PassIsFinite ==
    (gen[1].pc = "created") ~> (Exhausted(1) \/ NameMissing(1))

\* a round-robin pass over two datasets that ended after several rounds
C16_Witness ==
    /\ IsRoundRobin(1) /\ Exhausted(1)
    /\ Len(Owner(1).lengths) = 2 /\ Len(gen[1].out) >= 4

-----------------------------------------------------------------------------
(* One scheduler, two passes on it, pulls interleaved in any order *)

SharedConfigs == PairConfigs

\* each consumer requests its pass once, at any time
SharedIter(p) == gen[p].pc = "none" /\ Iter(p, 1)

SharedNext ==
    \/ Construct(1, SharedConfigs, AllTrainers)
    \/ \E epoch \in 0..MaxEpoch : SetEpoch(1, epoch)
    \/ \E p \in Passes : SharedIter(p)
    \/ \E p \in Passes : Pull(p)

SharedSpec == Init /\ [][SharedNext]_vars

-----------------------------------------------------------------------------
(* C17  Passes on one scheduler do not interfere *)

\* what pass p yields when it is pulled alone, to its end, on its scheduler
\* as it was when the pass seeded its generator
Alone(p) ==
    RunOut([NoGen EXCEPT !.pc = "created", !.owner = gen[p].owner],
           [Owner(p) EXCEPT !.epoch = gen[p].seeded[2]], OwnerTrainer(p))

IsPrefix(s, t) == Len(s) <= Len(t) /\ SubSeq(t, 1, Len(s)) = s

\* C17: of two passes started on one scheduler, at the same or at different
\* epochs, and pulled in any interleaving, each yields the batches it yields
\* when pulled alone: what it has yielded so far is the beginning of that
\* sequence, and all of it once the pass has ended.
C17_PassesDoNotInterfere ==
    \A p \in Passes :
        (Running(p) /\ gen[p].seeded # <<>>)
            => /\ IsPrefix(gen[p].out, Alone(p))
               /\ Drained(p) => gen[p].out = Alone(p)

\* two shuffled passes of one scheduler, seeded at different epochs, both
\* suspended after their second batch or later, with different batches
C17_Witness ==
    /\ gen[1].pc = "yielded" /\ gen[2].pc = "yielded"
    /\ gen[1].owner = gen[2].owner
    /\ gen[1].seeded # gen[2].seeded
    /\ Owner(1).shuffle
    /\ Len(gen[1].out) >= 2 /\ Len(gen[2].out) >= 2
    /\ gen[1].out # gen[2].out

-----------------------------------------------------------------------------
(* C18  Exact round-robin yield count *)

\* m = min(c_i)
MinCount(o) == CHOOSE m \in 0..MaxLength :
    /\ \E i \in 1..Len(o.lengths) : Counts(o)[i] = m
    /\ \A i \in 1..Len(o.lengths) : Counts(o)[i] >= m

\* j = the smallest index (from 0) with c_j = m
FirstMinIndex(o) == CHOOSE j \in 0..(Len(o.lengths) - 1) :
    /\ Counts(o)[j + 1] = MinCount(o)
    /\ \A i \in 0..(j - 1) : Counts(o)[i + 1] # MinCount(o)

\* C18: a round-robin pass over n >= 1 datasets pulled to exhaustion has
\* yielded exactly m * n + j batches, m the smallest batch count and j the
\* first dataset that has it; that is at least __len__ and less than
\* __len__ + n, and dataset i gave m + 1 batches if i < j, m otherwise.
C18_RoundRobinYieldCount ==
    \A p \in Passes :
        (IsRoundRobin(p) /\ Exhausted(p) /\ ValidShape(Owner(p)) /\ Len(Owner(p).lengths) >= 1)
            => LET o == Owner(p)
                   n == Len(o.lengths)
                   m == MinCount(o)
                   j == FirstMinIndex(o)
                   out == gen[p].out
               IN /\ Len(out) = m * n + j
                  /\ Len(out) >= RoundRobinLen(o)
                  /\ Len(out) < RoundRobinLen(o) + n
                  /\ \A i \in 0..(n - 1) :
                        YieldedFrom(out, i) = (IF i < j THEN m + 1 ELSE m)

\* an exhausted round-robin pass over two datasets that went round at least
\* once and yielded one batch more than __len__
C18_Witness ==
    \E p \in Passes :
        /\ IsRoundRobin(p) /\ Exhausted(p) /\ ValidShape(Owner(p))
        /\ Len(Owner(p).lengths) = 2
        /\ MinCount(Owner(p)) >= 1 /\ FirstMinIndex(Owner(p)) = 1
        /\ Len(gen[p].out) = RoundRobinLen(Owner(p)) + 1

-----------------------------------------------------------------------------
(* C19  The notifier write lags by one pull *)

\* the display name the notifier has for the dataset of the k-th batch
NameOfBatch(p, k) == OwnerTrainer(p).dataset_names[gen[p].out[k].dataset_idx + 1]

\* the pull that delivers the first batch (or ends an empty pass) writes
\* nothing to the trainer; any later write to the slot is made by a pull on a
\* pass that holds a batch, and is the name of that batch's dataset
WritesAtNextPull ==
    /\ \A p \in Passes :
          (gen[p].pc = "created" /\ gen'[p].pc # "created") => trainer' = trainer
    /\ (trainer' # trainer /\ sched' = sched)
          => \E p \in Passes :
                /\ gen[p].pc = "yielded" /\ gen'[p] # gen[p]
                /\ trainer'[gen[p].owner].dataset_name = NameOfBatch(p, Len(gen[p].out))

\* a consumer holding batch k >= 2 finds the name of batch k - 1 in the slot;
\* after the pull that ended the pass, the name of the last batch
SlotLagsByOne ==
    \A p \in Passes :
        (Running(p) /\ NotifyActive(OwnerTrainer(p)) /\ gen[p].out # <<>>)
            => LET k == Len(gen[p].out)
               IN /\ (gen[p].pc = "yielded" /\ k >= 2)
                        => OwnerTrainer(p).dataset_name = NameOfBatch(p, k - 1)
                  /\ gen[p].pc = "done"
                        => OwnerTrainer(p).dataset_name = NameOfBatch(p, k)

\* C19: with an active notifier, the name of the k-th batch's dataset is
\* written only when the consumer asks for batch k + 1 or the end of the
\* pass: receiving the first batch leaves the slot as it was before the
\* pass, on receipt of batch k >= 2 the slot holds the name of batch k - 1,
\* and the name of the last batch is there only after one more pull.
C19_NotifierLagsByOne ==
    /\ [][WritesAtNextPull]_vars
    /\ []SlotLagsByOne

\* a consumer holding its third batch or a later one while the slot holds
\* the name of the batch before, which came from another dataset
C19_Witness ==
    \E p \in Passes :
        /\ gen[p].pc = "yielded" /\ NotifyActive(OwnerTrainer(p))
        /\ Len(gen[p].out) >= 3
        /\ OwnerTrainer(p).dataset_name = NameOfBatch(p, Len(gen[p].out) - 1)
        /\ OwnerTrainer(p).dataset_name # NameOfBatch(p, Len(gen[p].out))

-----------------------------------------------------------------------------
(* C20  No sample repeats within a round-robin pass *)

\* C20: in a round-robin pass, whatever the lengths, drop_last and shuffle,
\* with batch_size > 0, no global index is yielded twice, neither in two
\* batches nor within one; and over lengths of the data model every yielded
\* index lies in [0, sum(lengths)).
C20_NoRepeatInRoundRobin ==
    \A p \in Passes :
        (IsRoundRobin(p) /\ Owner(p).batch_size > 0)
            => LET flat == Flatten(gen[p].out)
               IN /\ \A i, j \in 1..Len(flat) : i # j => flat[i] # flat[j]
                  /\ ValidLengths(Owner(p).lengths)
                        => \A i \in 1..Len(flat) :
                              flat[i] >= 0 /\ flat[i] < SumSeq(Owner(p).lengths)

\* an exhausted shuffled round-robin pass over two datasets that went round
\* more than once and did not yield its indices in ascending order
C20_Witness ==
    \E p \in Passes :
        /\ IsRoundRobin(p) /\ Exhausted(p) /\ ValidShape(Owner(p)) /\ Owner(p).shuffle
        /\ Len(Owner(p).lengths) = 2 /\ Len(gen[p].out) >= 3
        /\ Len(Flatten(gen[p].out)) >= 4
        /\ \E i \in 1..(Len(Flatten(gen[p].out)) - 1) :
              Flatten(gen[p].out)[i] > Flatten(gen[p].out)[i + 1]

====
